---- MODULE Spec2Model ----
(***************************************************************************)
(* Block-cipher primitives of rochavinicius/cryptography-algorithms:       *)
(* ARIA (ARIA.c), PRESENT (PRESENT.c) and SIMON (SIMON.c).                 *)
(*                                                                         *)
(* Fixed-width C integers are tuples of bytes, most significant byte       *)
(* first: a uint64_t is 8 bytes, an unsigned __int32 is 4, a uint16_t is   *)
(* 2.  The C operators ^ & | << >> are the operators Xor, And, Or, Shl,    *)
(* Shr below, which keep the width (bits shifted out are lost).            *)
(***************************************************************************)
EXTENDS Integers, Sequences, FiniteSets, TLC

VARIABLES cipher, W, ek, dk, presentCtx, simonCtx, ctxKey, last, prev, thr

vars == <<cipher, W, ek, dk, presentCtx, simonCtx, ctxKey, last, prev, thr>>

(***************************************************************************)
(* Bounds of the model.                                                    *)
(***************************************************************************)
NumAriaKeys == 2
NumAriaBlocks == 3
NumPresentKeys == 3
NumPresentBlocks == 4
NumSimonKeys == 4
NumSimonBlocks == 3
NumDiffusionInputs == 32
NumLayerStates == 96

(***************************************************************************)
(* Bitwise operators of C on bytes, tabulated once.                        *)
(***************************************************************************)
RECURSIVE XorN(_, _, _)
XorN(a, b, k) ==
  IF k = 0 THEN 0 ELSE ((a + b) % 2) + 2 * XorN(a \div 2, b \div 2, k - 1)

RECURSIVE AndN(_, _, _)
AndN(a, b, k) ==
  IF k = 0 THEN 0 ELSE ((a % 2) * (b % 2)) + 2 * AndN(a \div 2, b \div 2, k - 1)

\* nibble tables, entry 16*a + b + 1 for nibbles a, b
Xor4 == [i \in 1..256 |-> XorN((i - 1) \div 16, (i - 1) % 16, 4)] \o <<>>
And4 == [i \in 1..256 |-> AndN((i - 1) \div 16, (i - 1) % 16, 4)] \o <<>>

\* byte tables: XorTab[a + 1][b + 1] = a ^ b, AndTab = a & b, OrTab = a | b
XorTab ==
  [a \in 1..256 |->
     [b \in 1..256 |->
        16 * Xor4[16 * ((a - 1) \div 16) + ((b - 1) \div 16) + 1]
           + Xor4[16 * ((a - 1) % 16) + ((b - 1) % 16) + 1]] \o <<>>] \o <<>>
AndTab ==
  [a \in 1..256 |->
     [b \in 1..256 |->
        16 * And4[16 * ((a - 1) \div 16) + ((b - 1) \div 16) + 1]
           + And4[16 * ((a - 1) % 16) + ((b - 1) % 16) + 1]] \o <<>>] \o <<>>
OrTab ==
  [a \in 1..256 |->
     [b \in 1..256 |-> (a - 1) + (b - 1) - AndTab[a][b]] \o <<>>] \o <<>>

Pow2 == <<1, 2, 4, 8, 16, 32, 64, 128, 256>>

\* TLC hands an operator its arguments unevaluated.  Strict(v) is true of
\* every value and makes TLC evaluate v where it stands, so that a loop
\* evaluates each iteration before it enters the next one.
Strict(v) == v = v

(***************************************************************************)
(* uint64_t                                                                *)
(***************************************************************************)
Zero64 == <<0, 0, 0, 0, 0, 0, 0, 0>>
One64 == <<0, 0, 0, 0, 0, 0, 0, 1>>

Xor64(a, b) ==
  <<XorTab[a[1] + 1][b[1] + 1], XorTab[a[2] + 1][b[2] + 1],
    XorTab[a[3] + 1][b[3] + 1], XorTab[a[4] + 1][b[4] + 1],
    XorTab[a[5] + 1][b[5] + 1], XorTab[a[6] + 1][b[6] + 1],
    XorTab[a[7] + 1][b[7] + 1], XorTab[a[8] + 1][b[8] + 1]>>

And64(a, b) ==
  <<AndTab[a[1] + 1][b[1] + 1], AndTab[a[2] + 1][b[2] + 1],
    AndTab[a[3] + 1][b[3] + 1], AndTab[a[4] + 1][b[4] + 1],
    AndTab[a[5] + 1][b[5] + 1], AndTab[a[6] + 1][b[6] + 1],
    AndTab[a[7] + 1][b[7] + 1], AndTab[a[8] + 1][b[8] + 1]>>

Or64(a, b) ==
  <<OrTab[a[1] + 1][b[1] + 1], OrTab[a[2] + 1][b[2] + 1],
    OrTab[a[3] + 1][b[3] + 1], OrTab[a[4] + 1][b[4] + 1],
    OrTab[a[5] + 1][b[5] + 1], OrTab[a[6] + 1][b[6] + 1],
    OrTab[a[7] + 1][b[7] + 1], OrTab[a[8] + 1][b[8] + 1]>>

\* v << s for 0 <= s < 64: byte i takes the low bits of byte i+q and the
\* high bits of byte i+q+1, where s = 8q + r
Shl64(v, s) ==
  LET q == s \div 8
      m == Pow2[(s % 8) + 1]
      d == Pow2[9 - (s % 8)]
      e == v \o <<0, 0, 0, 0, 0, 0, 0, 0, 0>>
  IN <<((e[1 + q] * m) % 256) + (e[2 + q] \div d),
       ((e[2 + q] * m) % 256) + (e[3 + q] \div d),
       ((e[3 + q] * m) % 256) + (e[4 + q] \div d),
       ((e[4 + q] * m) % 256) + (e[5 + q] \div d),
       ((e[5 + q] * m) % 256) + (e[6 + q] \div d),
       ((e[6 + q] * m) % 256) + (e[7 + q] \div d),
       ((e[7 + q] * m) % 256) + (e[8 + q] \div d),
       ((e[8 + q] * m) % 256) + (e[9 + q] \div d)>>

\* v >> s for 0 <= s < 64
Shr64(v, s) ==
  LET q == s \div 8
      m == Pow2[9 - (s % 8)]
      d == Pow2[(s % 8) + 1]
      e == <<0, 0, 0, 0, 0, 0, 0, 0, 0>> \o v
  IN <<((e[9 - q] * m) % 256) + (e[10 - q] \div d),
       ((e[10 - q] * m) % 256) + (e[11 - q] \div d),
       ((e[11 - q] * m) % 256) + (e[12 - q] \div d),
       ((e[12 - q] * m) % 256) + (e[13 - q] \div d),
       ((e[13 - q] * m) % 256) + (e[14 - q] \div d),
       ((e[14 - q] * m) % 256) + (e[15 - q] \div d),
       ((e[15 - q] * m) % 256) + (e[16 - q] \div d),
       ((e[16 - q] * m) % 256) + (e[17 - q] \div d)>>

(***************************************************************************)
(* SIMON (SIMON.c)                                                         *)
(***************************************************************************)
ROL_64(x, n) == Or64(Shl64(x, n), Shr64(x, 64 - n))

ROR_64(x, n) == Or64(Shr64(x, n), Shl64(x, 64 - n))

f(x) == Xor64(And64(ROL_64(x, 1), ROL_64(x, 8)), ROL_64(x, 2))

\* a macro that takes its two subkeys in the other order
R2_KeysExchanged(x, y, k, l) ==
  LET y1 == Xor64(Xor64(y, f(x)), l)
      x1 == Xor64(Xor64(x, f(y1)), k)
  IN <<x1, y1>>

\* R2(&x, &y, k, l): the pair <<x, y>> after the call
R2(x, y, k, l) ==
  LET y1 == Xor64(Xor64(y, f(x)), k)
      x1 == Xor64(Xor64(x, f(y1)), l)
  IN <<x1, y1>>

\* a round constant with its two low bits set
SimonC_AllOnes == <<\hff, \hff, \hff, \hff, \hff, \hff, \hff, \hff>>

SimonC == <<\hff, \hff, \hff, \hff, \hff, \hff, \hff, \hfc>>
SimonZ128 == <<\h73, \h69, \hf8, \h85, \h19, \h2c, \h0e, \hf5>>
SimonZ192 == <<\hfc, \h2c, \he5, \h12, \h07, \ha6, \h35, \hdb>>
SimonZ256 == <<\hfd, \hc9, \h4c, \h3a, \h04, \h6d, \h67, \h8b>>

\* subkeys[i] of the context; the sequence holds subkeys[0] at position 1
SK(sk, i) == sk[i + 1]
SetSK(sk, i, v) == [sk EXCEPT ![i + 1] = v]

\* the loop of the 128-bit branch, from index i with shift register z
RECURSIVE SimonLoop128(_, _, _)
SimonLoop128(sk, z, i) ==
  IF i < 66 /\ Strict(<<sk, z>>)
  THEN SimonLoop128(
         SetSK(sk, i,
           Xor64(Xor64(Xor64(Xor64(SimonC, And64(z, One64)), SK(sk, i - 2)),
                       ROR_64(SK(sk, i - 1), 3)), ROR_64(SK(sk, i - 1), 4))),
         Shr64(z, 1), i + 1)
  ELSE sk

RECURSIVE SimonLoop192(_, _, _)
SimonLoop192(sk, z, i) ==
  IF i < 67 /\ Strict(<<sk, z>>)
  THEN SimonLoop192(
         SetSK(sk, i,
           Xor64(Xor64(Xor64(Xor64(SimonC, And64(z, One64)), SK(sk, i - 3)),
                       ROR_64(SK(sk, i - 1), 3)), ROR_64(SK(sk, i - 1), 4))),
         Shr64(z, 1), i + 1)
  ELSE sk

RECURSIVE SimonLoop256(_, _, _)
SimonLoop256(sk, z, i) ==
  IF i < 68 /\ Strict(<<sk, z>>)
  THEN SimonLoop256(
         SetSK(sk, i,
           Xor64(Xor64(Xor64(Xor64(Xor64(Xor64(SimonC, And64(z, One64)),
                                         SK(sk, i - 4)),
                                   ROR_64(SK(sk, i - 1), 3)),
                             SK(sk, i - 3)),
                       ROR_64(SK(sk, i - 1), 4)),
                 ROR_64(SK(sk, i - 3), 1))),
         Shr64(z, 1), i + 1)
  ELSE sk

\* one subkey of the tail: c ^ bit ^ a ^ ROR(b, 3) ^ ROR(b, 4)
SimonTail(bit, a, b) ==
  Xor64(Xor64(Xor64(Xor64(SimonC, bit), a), ROR_64(b, 3)), ROR_64(b, 4))

\* one subkey of the 256-bit tail:
\* c ^ bit ^ a ^ ROR(b, 3) ^ d ^ ROR(b, 4) ^ ROR(d, 1)
SimonTail256(bit, a, b, d) ==
  Xor64(Xor64(Xor64(Xor64(Xor64(Xor64(SimonC, bit), a), ROR_64(b, 3)), d),
              ROR_64(b, 4)), ROR_64(d, 1))

\* subkeys[i] = c ^ bit ^ subkeys[i - back] ^ ROR_64(subkeys[i - 1], 3)
\*              ^ ROR_64(subkeys[i - 1], 4)
SetTail(sk, i, bit, back) ==
  SetSK(sk, i, SimonTail(bit, SK(sk, i - back), SK(sk, i - 1)))

\* subkeys[i] = c ^ bit ^ subkeys[i - 4] ^ ROR_64(subkeys[i - 1], 3)
\*              ^ subkeys[i - 3] ^ ROR_64(subkeys[i - 1], 4)
\*              ^ ROR_64(subkeys[i - 3], 1)
SetTail256(sk, i, bit) ==
  SetSK(sk, i, SimonTail256(bit, SK(sk, i - 4), SK(sk, i - 1), SK(sk, i - 3)))

\* SIMON_init(context, key, keyLen): the context after the call.  key is the
\* caller's array uint64_t key[4].
SIMON_init(context, key, keyLen) ==
  IF keyLen = 128
  THEN [subkeys |->
          SetTail(SetTail(SimonLoop128(
                            SetSK(SetSK(context.subkeys, 0, key[2]), 1, key[1]),
                            SimonZ128, 2),
                          66, One64, 2),
                  67, Zero64, 2),
        nrSubkeys |-> 68]
  ELSE IF keyLen = 192
  THEN [subkeys |->
          SetTail(SetTail(SimonLoop192(
                            SetSK(SetSK(SetSK(context.subkeys, 0, key[3]),
                                        1, key[2]), 2, key[1]),
                            SimonZ192, 3),
                          67, Zero64, 3),
                  68, One64, 3),
        nrSubkeys |-> 69]
  ELSE [subkeys |->
          SetTail256(SetTail256(SetTail256(SetTail256(
            SimonLoop256(
              SetSK(SetSK(SetSK(SetSK(context.subkeys, 0, key[4]), 1, key[3]),
                          2, key[2]), 3, key[1]),
              SimonZ256, 4),
            68, Zero64), 69, One64), 70, Zero64), 71, Zero64),
        nrSubkeys |-> 72]

\* for (i = from; i < to; i += 2) R2(&x, &y, subkeys[i], subkeys[i + 1]);
RECURSIVE SimonEncLoop(_, _, _, _)
SimonEncLoop(sk, xy, i, to) ==
  IF i < to /\ Strict(xy)
  THEN SimonEncLoop(sk, R2(xy[1], xy[2], SK(sk, i), SK(sk, i + 1)), i + 2, to)
  ELSE xy

\* SIMON_encrypt(context, block, out): the array out after the call
SIMON_encrypt(context, block) ==
  IF context.nrSubkeys = 69
  THEN LET xy == SimonEncLoop(context.subkeys, <<block[1], block[2]>>, 0, 68)
           y1 == Xor64(Xor64(xy[2], f(xy[1])), SK(context.subkeys, 68))
       IN <<y1, xy[1]>>
  ELSE SimonEncLoop(context.subkeys, <<block[1], block[2]>>, 0,
                    context.nrSubkeys)

\* for (i = from; i >= 0; i -= 2) R2(&y, &x, subkeys[i], subkeys[i - 1]);
RECURSIVE SimonDecLoop(_, _, _)
SimonDecLoop(sk, xy, i) ==
  IF i >= 0 /\ Strict(xy)
  THEN LET yx == R2(xy[2], xy[1], SK(sk, i), SK(sk, i - 1))
       IN SimonDecLoop(sk, <<yx[2], yx[1]>>, i - 2)
  ELSE xy

\* a decryption that undoes the odd 69th round without f(x)
SIMON_decrypt_NoF(context, block) ==
  IF context.nrSubkeys = 69
  THEN LET x0 == block[2]
           y0 == Xor64(block[1], SK(context.subkeys, 68))
       IN SimonDecLoop(context.subkeys, <<x0, y0>>, 67)
  ELSE SimonDecLoop(context.subkeys, <<block[1], block[2]>>,
                    context.nrSubkeys - 1)

\* SIMON_decrypt(context, block, out): the array out after the call
SIMON_decrypt(context, block) ==
  IF context.nrSubkeys = 69
  THEN LET x0 == block[2]
           y0 == Xor64(Xor64(block[1], SK(context.subkeys, 68)), f(x0))
       IN SimonDecLoop(context.subkeys, <<x0, y0>>, 67)
  ELSE SimonDecLoop(context.subkeys, <<block[1], block[2]>>,
                    context.nrSubkeys - 1)

(***************************************************************************)
(* PRESENT (PRESENT.c)                                                     *)
(***************************************************************************)
NR_ROUNDS == 31

sbox == <<\hc, \h5, \h6, \hb, \h9, \h0, \ha, \hd,
          \h3, \he, \hf, \h8, \h4, \h7, \h1, \h2>>

\* an inverse table with the images of 0 and 1 exchanged
isbox_Exchanged == <<\he, \h5, \hf, \h8, \hc, \h1, \h2, \hd,
                     \hb, \h4, \h6, \h3, \h0, \h7, \h9, \ha>>

isbox == <<\h5, \he, \hf, \h8, \hc, \h1, \h2, \hd,
           \hb, \h4, \h6, \h3, \h0, \h7, \h9, \ha>>

\* the permutation table; p[i] of the code is PTable[i + 1]
PTable ==
  <<0, 16, 32, 48, 1, 17, 33, 49, 2, 18, 34, 50, 3, 19, 35, 51,
    4, 20, 36, 52, 5, 21, 37, 53, 6, 22, 38, 54, 7, 23, 39, 55,
    8, 24, 40, 56, 9, 25, 41, 57, 10, 26, 42, 58, 11, 27, 43, 59,
    12, 28, 44, 60, 13, 29, 45, 61, 14, 30, 46, 62, 15, 31, 47, 63>>

\* (uint64_t)w of a uint16_t w, and of an int 0 <= n < 256
U64of16(w) == <<0, 0, 0, 0, 0, 0, w[1], w[2]>>
U64ofInt(n) == <<0, 0, 0, 0, 0, 0, 0, n>>

Mask_ffff == <<0, 0, 0, 0, 0, 0, \hff, \hff>>
Mask_0fff == <<0, 0, 0, 0, 0, 0, \h0f, \hff>>
Mask_f == <<0, 0, 0, 0, 0, 0, 0, \hf>>

\* sbox[v & 0xf] as a uint64_t
SboxOf(v) == U64ofInt(sbox[And64(v, Mask_f)[8] + 1])

\* roundKeys[i] of the context; the sequence holds roundKeys[0] at position 1
RoundKey(rk, i) == rk[i + 1]
SetRoundKey(rk, i, v) == [rk EXCEPT ![i + 1] = v]

\* the loop of the 80-bit branch from round i; st = <<keyHigh, keyLow, roundKeys>>
RECURSIVE PresentLoop80(_, _)
PresentLoop80(st, i) ==
  IF i <= NR_ROUNDS /\ Strict(st)
  THEN LET temp == st[1]
           keyHigh1 == And64(Shr64(st[2], 3), Mask_ffff)
           keyLow1 == Or64(Or64(Shl64(st[2], 61), Shl64(temp, 45)),
                           Shr64(st[2], 19))
           temp2 == SboxOf(Shr64(keyHigh1, 12))
           keyHigh2 == Or64(And64(keyHigh1, Mask_0fff), Shl64(temp2, 12))
           keyLow2 == Xor64(keyLow1, Shl64(U64ofInt(i), 15))
       IN PresentLoop80(
            <<keyHigh2, keyLow2,
              SetRoundKey(st[3], i, Or64(Shl64(keyHigh2, 48), Shr64(keyLow2, 16)))>>,
            i + 1)
  ELSE st

\* a 128-bit loop that replaces the two top nibbles of keyHigh by their
\* S-box images, where the code ORs the images into them
RECURSIVE PresentLoop128_Replace(_, _)
PresentLoop128_Replace(st, i) ==
  IF i <= NR_ROUNDS /\ Strict(st)
  THEN LET temp == st[1]
           keyHigh1 == Or64(Shl64(temp, 61), Shr64(st[2], 3))
           keyLow1 == Or64(Shl64(st[2], 61), Shr64(temp, 3))
           keyHigh2 == Or64(And64(keyHigh1, <<\h0f, \hff, \hff, \hff, \hff, \hff, \hff, \hff>>),
                            Shl64(SboxOf(Shr64(keyHigh1, 60)), 60))
           keyHigh3 == Or64(And64(keyHigh2, <<\hf0, \hff, \hff, \hff, \hff, \hff, \hff, \hff>>),
                            Shl64(SboxOf(Shr64(keyHigh2, 56)), 56))
           keyHigh4 == Xor64(keyHigh3, U64ofInt(i \div 4))
           keyLow2 == Xor64(keyLow1, Shl64(U64ofInt(i), 62))
       IN PresentLoop128_Replace(
            <<keyHigh4, keyLow2, SetRoundKey(st[3], i, keyHigh4)>>, i + 1)
  ELSE st

\* the loop of the 128-bit branch from round i
RECURSIVE PresentLoop128(_, _)
PresentLoop128(st, i) ==
  IF i <= NR_ROUNDS /\ Strict(st)
  THEN LET temp == st[1]
           keyHigh1 == Or64(Shl64(temp, 61), Shr64(st[2], 3))
           keyLow1 == Or64(Shl64(st[2], 61), Shr64(temp, 3))
           keyHigh2 == Or64(keyHigh1, Shl64(SboxOf(Shr64(keyHigh1, 60)), 60))
           keyHigh3 == Or64(keyHigh2, Shl64(SboxOf(Shr64(keyHigh2, 56)), 56))
           keyHigh4 == Xor64(keyHigh3, U64ofInt(i \div 4))
           keyLow2 == Xor64(keyLow1, Shl64(U64ofInt(i), 62))
       IN PresentLoop128(<<keyHigh4, keyLow2, SetRoundKey(st[3], i, keyHigh4)>>,
                         i + 1)
  ELSE st

\* PRESENT_init(context, key, keyLen): the context after the call.  key is
\* the caller's array uint16_t key[8].
PRESENT_init(context, key, keyLen) ==
  IF keyLen = 80
  THEN LET keyHigh == U64of16(key[1])
           keyLow == Or64(Or64(Or64(Shl64(U64of16(key[2]), 48),
                                    Shl64(U64of16(key[3]), 32)),
                               Shl64(U64of16(key[4]), 16)),
                          U64of16(key[5]))
           rk0 == SetRoundKey(context.roundKeys, 0,
                        Or64(Shl64(keyHigh, 48), Shr64(keyLow, 16)))
       IN [roundKeys |-> PresentLoop80(<<keyHigh, keyLow, rk0>>, 1)[3]]
  ELSE LET keyHigh == Or64(Or64(Or64(Shl64(U64of16(key[1]), 48),
                                     Shl64(U64of16(key[2]), 32)),
                                Shl64(U64of16(key[3]), 16)),
                           U64of16(key[4]))
           keyLow == Or64(Or64(Or64(Shl64(U64of16(key[5]), 48),
                                    Shl64(U64of16(key[6]), 32)),
                               Shl64(U64of16(key[7]), 16)),
                          U64of16(key[8]))
           rk0 == SetRoundKey(context.roundKeys, 0, keyHigh)
       IN [roundKeys |-> PresentLoop128(<<keyHigh, keyLow, rk0>>, 1)[3]]

\* state = block[0] << 48 | block[1] << 32 | block[2] << 16 | block[3]
PresentLoad(block) ==
  Or64(Or64(Or64(Shl64(U64of16(block[1]), 48), Shl64(U64of16(block[2]), 32)),
            Shl64(U64of16(block[3]), 16)),
       U64of16(block[4]))

\* out[0..3] = (uint16_t)(state >> 48), (state >> 32), (state >> 16), state
PresentStore(state) ==
  <<SubSeq(Shr64(state, 48), 7, 8), SubSeq(Shr64(state, 32), 7, 8),
    SubSeq(Shr64(state, 16), 7, 8), SubSeq(state, 7, 8)>>

\* the nibble loop: byte i of the state, pos, becomes
\* box[(pos >> 4) & 0x0f] << 4 | box[pos & 0x0f]
SubByte(box, pos) == 16 * box[(pos \div 16) + 1] + box[(pos % 16) + 1]
SubLayer(box, state) ==
  <<SubByte(box, state[1]), SubByte(box, state[2]), SubByte(box, state[3]),
    SubByte(box, state[4]), SubByte(box, state[5]), SubByte(box, state[6]),
    SubByte(box, state[7]), SubByte(box, state[8])>>

\* state >> k & 0x1
Bit64(state, k) == (state[8 - (k \div 8)] \div Pow2[(k % 8) + 1]) % 2

\* the uint64_t whose set bits are the positions in T (0 is the lowest bit)
ByteOfBits(T, lo) ==
  (IF lo + 7 \in T THEN 128 ELSE 0) + (IF lo + 6 \in T THEN 64 ELSE 0)
  + (IF lo + 5 \in T THEN 32 ELSE 0) + (IF lo + 4 \in T THEN 16 ELSE 0)
  + (IF lo + 3 \in T THEN 8 ELSE 0) + (IF lo + 2 \in T THEN 4 ELSE 0)
  + (IF lo + 1 \in T THEN 2 ELSE 0) + (IF lo \in T THEN 1 ELSE 0)
U64ofBits(T) ==
  <<ByteOfBits(T, 56), ByteOfBits(T, 48), ByteOfBits(T, 40), ByteOfBits(T, 32),
    ByteOfBits(T, 24), ByteOfBits(T, 16), ByteOfBits(T, 8), ByteOfBits(T, 0)>>

\* a permutation layer that leaves every bit in place
PLayer_Identity(state) == state

\* for (i = 0; i < 64; i++) temp |= (state >> (63 - i) & 0x1) << (63 - p[i]);
PLayer(state) ==
  U64ofBits({63 - PTable[i + 1] : i \in {j \in 0..63 : Bit64(state, 63 - j) = 1}})

\* an inverse layer that applies the permutation once more
InvPLayer_Forward(state) == PLayer(state)

\* for (i = 0; i < 64; i++) temp = (temp << 1) | ((state >> (63 - p[i])) & 0x1);
InvPLayer(state) ==
  U64ofBits({63 - i : i \in {j \in 0..63 : Bit64(state, 63 - PTable[j + 1]) = 1}})

\* the round loop of PRESENT_encrypt from round
RECURSIVE PresentEncLoop(_, _, _)
PresentEncLoop(rk, state, round) ==
  IF round < NR_ROUNDS /\ Strict(state)
  THEN PresentEncLoop(rk, PLayer(SubLayer(sbox, Xor64(state, RoundKey(rk, round)))),
                      round + 1)
  ELSE state

\* PRESENT_encrypt(context, block, out): the array out after the call
PRESENT_encrypt(context, block) ==
  PresentStore(
    Xor64(PresentEncLoop(context.roundKeys, PresentLoad(block), 0),
          RoundKey(context.roundKeys, NR_ROUNDS)))

\* the round loop of PRESENT_decrypt from round
RECURSIVE PresentDecLoop(_, _, _)
PresentDecLoop(rk, state, round) ==
  IF round > 0 /\ Strict(state)
  THEN PresentDecLoop(rk,
         SubLayer(isbox, InvPLayer(Xor64(state, RoundKey(rk, round)))), round - 1)
  ELSE state

\* PRESENT_decrypt(context, block, out): the array out after the call
PRESENT_decrypt(context, block) ==
  PresentStore(
    Xor64(PresentDecLoop(context.roundKeys, PresentLoad(block), NR_ROUNDS),
          RoundKey(context.roundKeys, 0)))

(***************************************************************************)
(* unsigned __int32                                                        *)
(***************************************************************************)
Xor32(a, b) ==
  <<XorTab[a[1] + 1][b[1] + 1], XorTab[a[2] + 1][b[2] + 1],
    XorTab[a[3] + 1][b[3] + 1], XorTab[a[4] + 1][b[4] + 1]>>

Or32(a, b) ==
  <<OrTab[a[1] + 1][b[1] + 1], OrTab[a[2] + 1][b[2] + 1],
    OrTab[a[3] + 1][b[3] + 1], OrTab[a[4] + 1][b[4] + 1]>>

\* v << s for 0 <= s < 32
Shl32(v, s) ==
  LET q == s \div 8
      m == Pow2[(s % 8) + 1]
      d == Pow2[9 - (s % 8)]
      e == v \o <<0, 0, 0, 0, 0>>
  IN <<((e[1 + q] * m) % 256) + (e[2 + q] \div d),
       ((e[2 + q] * m) % 256) + (e[3 + q] \div d),
       ((e[3 + q] * m) % 256) + (e[4 + q] \div d),
       ((e[4 + q] * m) % 256) + (e[5 + q] \div d)>>

\* v >> s for 0 <= s < 32
Shr32(v, s) ==
  LET q == s \div 8
      m == Pow2[9 - (s % 8)]
      d == Pow2[(s % 8) + 1]
      e == <<0, 0, 0, 0, 0>> \o v
  IN <<((e[5 - q] * m) % 256) + (e[6 - q] \div d),
       ((e[6 - q] * m) % 256) + (e[7 - q] \div d),
       ((e[7 - q] * m) % 256) + (e[8 - q] \div d),
       ((e[8 - q] * m) % 256) + (e[9 - q] \div d)>>

(***************************************************************************)
(* ARIA (ARIA.c).  A 128-bit value is an array of four unsigned __int32:   *)
(* x[0] of the code is x[1] here.                                          *)
(***************************************************************************)
CK1 == <<<<\h51, \h7c, \hc1, \hb7>>, <<\h27, \h22, \h0a, \h94>>, <<\hfe, \h13, \hab, \he8>>, <<\hfa, \h9a, \h6e, \he0>>>>
CK2 == <<<<\h6d, \hb1, \h4a, \hcc>>, <<\h9e, \h21, \hc8, \h20>>, <<\hff, \h28, \hb1, \hd5>>, <<\hef, \h5d, \he2, \hb0>>>>
CK3 == <<<<\hdb, \h92, \h37, \h1d>>, <<\h21, \h26, \he9, \h70>>, <<\h03, \h24, \h97, \h75>>, <<\h04, \he8, \hc9, \h0e>>>>

Zero32 == <<0, 0, 0, 0>>
Zero128 == <<Zero32, Zero32, Zero32, Zero32>>

KR == Zero128

SB1 ==
  <<
    \h63, \h7c, \h77, \h7b, \hf2, \h6b, \h6f, \hc5, \h30, \h01, \h67, \h2b, \hfe, \hd7, \hab, \h76,
    \hca, \h82, \hc9, \h7d, \hfa, \h59, \h47, \hf0, \had, \hd4, \ha2, \haf, \h9c, \ha4, \h72, \hc0,
    \hb7, \hfd, \h93, \h26, \h36, \h3f, \hf7, \hcc, \h34, \ha5, \he5, \hf1, \h71, \hd8, \h31, \h15,
    \h04, \hc7, \h23, \hc3, \h18, \h96, \h05, \h9a, \h07, \h12, \h80, \he2, \heb, \h27, \hb2, \h75,
    \h09, \h83, \h2c, \h1a, \h1b, \h6e, \h5a, \ha0, \h52, \h3b, \hd6, \hb3, \h29, \he3, \h2f, \h84,
    \h53, \hd1, \h00, \hed, \h20, \hfc, \hb1, \h5b, \h6a, \hcb, \hbe, \h39, \h4a, \h4c, \h58, \hcf,
    \hd0, \hef, \haa, \hfb, \h43, \h4d, \h33, \h85, \h45, \hf9, \h02, \h7f, \h50, \h3c, \h9f, \ha8,
    \h51, \ha3, \h40, \h8f, \h92, \h9d, \h38, \hf5, \hbc, \hb6, \hda, \h21, \h10, \hff, \hf3, \hd2,
    \hcd, \h0c, \h13, \hec, \h5f, \h97, \h44, \h17, \hc4, \ha7, \h7e, \h3d, \h64, \h5d, \h19, \h73,
    \h60, \h81, \h4f, \hdc, \h22, \h2a, \h90, \h88, \h46, \hee, \hb8, \h14, \hde, \h5e, \h0b, \hdb,
    \he0, \h32, \h3a, \h0a, \h49, \h06, \h24, \h5c, \hc2, \hd3, \hac, \h62, \h91, \h95, \he4, \h79,
    \he7, \hc8, \h37, \h6d, \h8d, \hd5, \h4e, \ha9, \h6c, \h56, \hf4, \hea, \h65, \h7a, \hae, \h08,
    \hba, \h78, \h25, \h2e, \h1c, \ha6, \hb4, \hc6, \he8, \hdd, \h74, \h1f, \h4b, \hbd, \h8b, \h8a,
    \h70, \h3e, \hb5, \h66, \h48, \h03, \hf6, \h0e, \h61, \h35, \h57, \hb9, \h86, \hc1, \h1d, \h9e,
    \he1, \hf8, \h98, \h11, \h69, \hd9, \h8e, \h94, \h9b, \h1e, \h87, \he9, \hce, \h55, \h28, \hdf,
    \h8c, \ha1, \h89, \h0d, \hbf, \he6, \h42, \h68, \h41, \h99, \h2d, \h0f, \hb0, \h54, \hbb, \h16
  >>

SB2 ==
  <<
    \he2, \h4e, \h54, \hfc, \h94, \hc2, \h4a, \hcc, \h62, \h0d, \h6a, \h46, \h3c, \h4d, \h8b, \hd1,
    \h5e, \hfa, \h64, \hcb, \hb4, \h97, \hbe, \h2b, \hbc, \h77, \h2e, \h03, \hd3, \h19, \h59, \hc1,
    \h1d, \h06, \h41, \h6b, \h55, \hf0, \h99, \h69, \hea, \h9c, \h18, \hae, \h63, \hdf, \he7, \hbb,
    \h00, \h73, \h66, \hfb, \h96, \h4c, \h85, \he4, \h3a, \h09, \h45, \haa, \h0f, \hee, \h10, \heb,
    \h2d, \h7f, \hf4, \h29, \hac, \hcf, \had, \h91, \h8d, \h78, \hc8, \h95, \hf9, \h2f, \hce, \hcd,
    \h08, \h7a, \h88, \h38, \h5c, \h83, \h2a, \h28, \h47, \hdb, \hb8, \hc7, \h93, \ha4, \h12, \h53,
    \hff, \h87, \h0e, \h31, \h36, \h21, \h58, \h48, \h01, \h8e, \h37, \h74, \h32, \hca, \he9, \hb1,
    \hb7, \hab, \h0c, \hd7, \hc4, \h56, \h42, \h26, \h07, \h98, \h60, \hd9, \hb6, \hb9, \h11, \h40,
    \hec, \h20, \h8c, \hbd, \ha0, \hc9, \h84, \h04, \h49, \h23, \hf1, \h4f, \h50, \h1f, \h13, \hdc,
    \hd8, \hc0, \h9e, \h57, \he3, \hc3, \h7b, \h65, \h3b, \h02, \h8f, \h3e, \he8, \h25, \h92, \he5,
    \h15, \hdd, \hfd, \h17, \ha9, \hbf, \hd4, \h9a, \h7e, \hc5, \h39, \h67, \hfe, \h76, \h9d, \h43,
    \ha7, \he1, \hd0, \hf5, \h68, \hf2, \h1b, \h34, \h70, \h05, \ha3, \h8a, \hd5, \h79, \h86, \ha8,
    \h30, \hc6, \h51, \h4b, \h1e, \ha6, \h27, \hf6, \h35, \hd2, \h6e, \h24, \h16, \h82, \h5f, \hda,
    \he6, \h75, \ha2, \hef, \h2c, \hb2, \h1c, \h9f, \h5d, \h6f, \h80, \h0a, \h72, \h44, \h9b, \h6c,
    \h90, \h0b, \h5b, \h33, \h7d, \h5a, \h52, \hf3, \h61, \ha1, \hf7, \hb0, \hd6, \h3f, \h7c, \h6d,
    \hed, \h14, \he0, \ha5, \h3d, \h22, \hb3, \hf8, \h89, \hde, \h71, \h1a, \haf, \hba, \hb5, \h81
  >>

SB3 ==
  <<
    \h52, \h09, \h6a, \hd5, \h30, \h36, \ha5, \h38, \hbf, \h40, \ha3, \h9e, \h81, \hf3, \hd7, \hfb,
    \h7c, \he3, \h39, \h82, \h9b, \h2f, \hff, \h87, \h34, \h8e, \h43, \h44, \hc4, \hde, \he9, \hcb,
    \h54, \h7b, \h94, \h32, \ha6, \hc2, \h23, \h3d, \hee, \h4c, \h95, \h0b, \h42, \hfa, \hc3, \h4e,
    \h08, \h2e, \ha1, \h66, \h28, \hd9, \h24, \hb2, \h76, \h5b, \ha2, \h49, \h6d, \h8b, \hd1, \h25,
    \h72, \hf8, \hf6, \h64, \h86, \h68, \h98, \h16, \hd4, \ha4, \h5c, \hcc, \h5d, \h65, \hb6, \h92,
    \h6c, \h70, \h48, \h50, \hfd, \hed, \hb9, \hda, \h5e, \h15, \h46, \h57, \ha7, \h8d, \h9d, \h84,
    \h90, \hd8, \hab, \h00, \h8c, \hbc, \hd3, \h0a, \hf7, \he4, \h58, \h05, \hb8, \hb3, \h45, \h06,
    \hd0, \h2c, \h1e, \h8f, \hca, \h3f, \h0f, \h02, \hc1, \haf, \hbd, \h03, \h01, \h13, \h8a, \h6b,
    \h3a, \h91, \h11, \h41, \h4f, \h67, \hdc, \hea, \h97, \hf2, \hcf, \hce, \hf0, \hb4, \he6, \h73,
    \h96, \hac, \h74, \h22, \he7, \had, \h35, \h85, \he2, \hf9, \h37, \he8, \h1c, \h75, \hdf, \h6e,
    \h47, \hf1, \h1a, \h71, \h1d, \h29, \hc5, \h89, \h6f, \hb7, \h62, \h0e, \haa, \h18, \hbe, \h1b,
    \hfc, \h56, \h3e, \h4b, \hc6, \hd2, \h79, \h20, \h9a, \hdb, \hc0, \hfe, \h78, \hcd, \h5a, \hf4,
    \h1f, \hdd, \ha8, \h33, \h88, \h07, \hc7, \h31, \hb1, \h12, \h10, \h59, \h27, \h80, \hec, \h5f,
    \h60, \h51, \h7f, \ha9, \h19, \hb5, \h4a, \h0d, \h2d, \he5, \h7a, \h9f, \h93, \hc9, \h9c, \hef,
    \ha0, \he0, \h3b, \h4d, \hae, \h2a, \hf5, \hb0, \hc8, \heb, \hbb, \h3c, \h83, \h53, \h99, \h61,
    \h17, \h2b, \h04, \h7e, \hba, \h77, \hd6, \h26, \he1, \h69, \h14, \h63, \h55, \h21, \h0c, \h7d
  >>

SB4 ==
  <<
    \h30, \h68, \h99, \h1b, \h87, \hb9, \h21, \h78, \h50, \h39, \hdb, \he1, \h72, \h09, \h62, \h3c,
    \h3e, \h7e, \h5e, \h8e, \hf1, \ha0, \hcc, \ha3, \h2a, \h1d, \hfb, \hb6, \hd6, \h20, \hc4, \h8d,
    \h81, \h65, \hf5, \h89, \hcb, \h9d, \h77, \hc6, \h57, \h43, \h56, \h17, \hd4, \h40, \h1a, \h4d,
    \hc0, \h63, \h6c, \he3, \hb7, \hc8, \h64, \h6a, \h53, \haa, \h38, \h98, \h0c, \hf4, \h9b, \hed,
    \h7f, \h22, \h76, \haf, \hdd, \h3a, \h0b, \h58, \h67, \h88, \h06, \hc3, \h35, \h0d, \h01, \h8b,
    \h8c, \hc2, \he6, \h5f, \h02, \h24, \h75, \h93, \h66, \h1e, \he5, \he2, \h54, \hd8, \h10, \hce,
    \h7a, \he8, \h08, \h2c, \h12, \h97, \h32, \hab, \hb4, \h27, \h0a, \h23, \hdf, \hef, \hca, \hd9,
    \hb8, \hfa, \hdc, \h31, \h6b, \hd1, \had, \h19, \h49, \hbd, \h51, \h96, \hee, \he4, \ha8, \h41,
    \hda, \hff, \hcd, \h55, \h86, \h36, \hbe, \h61, \h52, \hf8, \hbb, \h0e, \h82, \h48, \h69, \h9a,
    \he0, \h47, \h9e, \h5c, \h04, \h4b, \h34, \h15, \h79, \h26, \ha7, \hde, \h29, \hae, \h92, \hd7,
    \h84, \he9, \hd2, \hba, \h5d, \hf3, \hc5, \hb0, \hbf, \ha4, \h3b, \h71, \h44, \h46, \h2b, \hfc,
    \heb, \h6f, \hd5, \hf6, \h14, \hfe, \h7c, \h70, \h5a, \h7d, \hfd, \h2f, \h18, \h83, \h16, \ha5,
    \h91, \h1f, \h05, \h95, \h74, \ha9, \hc1, \h5b, \h4a, \h85, \h6d, \h13, \h07, \h4f, \h4e, \h45,
    \hb2, \h0f, \hc9, \h1c, \ha6, \hbc, \hec, \h73, \h90, \h7b, \hcf, \h59, \h8f, \ha1, \hf9, \h2d,
    \hf2, \hb1, \h00, \h94, \h37, \h9f, \hd0, \h2e, \h9c, \h6e, \h28, \h3f, \h80, \hf0, \h3d, \hd3,
    \h25, \h8a, \hb5, \he7, \h42, \hb3, \hc7, \hea, \hf7, \h4c, \h11, \h33, \h03, \ha2, \hac, \h60
  >>

\* XOR_128(y, x): the array y after the call
XOR_128(y, x) ==
  <<Xor32(y[1], x[1]), Xor32(y[2], x[2]), Xor32(y[3], x[3]), Xor32(y[4], x[4])>>

\* ROL_128(y, x, n): the array y after the call (y and x are distinct arrays
\* at every call of the code)
ROL_128(x, n) ==
  <<Or32(Shl32(x[1], n), Shr32(x[2], 32 - n)),
    Or32(Shl32(x[2], n), Shr32(x[3], 32 - n)),
    Or32(Shl32(x[3], n), Shr32(x[4], 32 - n)),
    Or32(Shl32(x[4], n), Shr32(x[1], 32 - n))>>

\* ROR_128(y, x, n): the array y after the call
ROR_128(x, n) ==
  <<Or32(Shr32(x[1], n), Shl32(x[4], 32 - n)),
    Or32(Shr32(x[2], n), Shl32(x[1], 32 - n)),
    Or32(Shr32(x[3], n), Shl32(x[2], 32 - n)),
    Or32(Shr32(x[4], n), Shl32(x[3], 32 - n))>>

\* one word of SL1 and of SL2: (unsigned __int8)(w >> 24) is w[1]
SL1Word(w) == <<SB1[w[1] + 1], SB2[w[2] + 1], SB3[w[3] + 1], SB4[w[4] + 1]>>
SL2Word(w) == <<SB3[w[1] + 1], SB4[w[2] + 1], SB1[w[3] + 1], SB2[w[4] + 1]>>

SL1(input) ==
  <<SL1Word(input[1]), SL1Word(input[2]), SL1Word(input[3]), SL1Word(input[4])>>

SL2(input) ==
  <<SL2Word(input[1]), SL2Word(input[2]), SL2Word(input[3]), SL2Word(input[4])>>

\* an XOR that leaves out the last of the seven bytes
Xor7_DropLast(a, b, c, d, e, g, h) ==
  XorTab[XorTab[XorTab[XorTab[XorTab[a + 1][b + 1] + 1][c + 1] + 1]
                [d + 1] + 1][e + 1] + 1][g + 1]

Xor7(a, b, c, d, e, g, h) ==
  XorTab[XorTab[XorTab[XorTab[XorTab[XorTab[a + 1][b + 1] + 1][c + 1] + 1]
                              [d + 1] + 1][e + 1] + 1][g + 1] + 1][h + 1]

\* A(input, output): the array output after the call; x[i + 1] is the byte
\* x_i of the code, read before any byte of output is written
A(input) ==
  LET x == input[1] \o input[2] \o input[3] \o input[4]
      y0 == Xor7(x[4], x[5], x[7], x[9], x[10], x[14], x[15])
      y1 == Xor7(x[3], x[6], x[8], x[9], x[10], x[13], x[16])
      y2 == Xor7(x[2], x[5], x[7], x[11], x[12], x[13], x[16])
      y3 == Xor7(x[1], x[6], x[8], x[11], x[12], x[14], x[15])
      y4 == Xor7(x[1], x[3], x[6], x[9], x[12], x[15], x[16])
      y5 == Xor7(x[2], x[4], x[5], x[10], x[11], x[15], x[16])
      y6 == Xor7(x[1], x[3], x[8], x[10], x[11], x[13], x[14])
      y7 == Xor7(x[2], x[4], x[7], x[9], x[12], x[13], x[14])
      y8 == Xor7(x[1], x[2], x[5], x[8], x[11], x[14], x[16])
      y9 == Xor7(x[1], x[2], x[6], x[7], x[12], x[13], x[15])
      y10 == Xor7(x[3], x[4], x[6], x[7], x[9], x[14], x[16])
      y11 == Xor7(x[3], x[4], x[5], x[8], x[10], x[13], x[15])
      y12 == Xor7(x[2], x[3], x[7], x[8], x[10], x[12], x[13])
      y13 == Xor7(x[1], x[4], x[7], x[8], x[9], x[11], x[14])
      y14 == Xor7(x[1], x[4], x[5], x[6], x[10], x[12], x[15])
      y15 == Xor7(x[2], x[3], x[5], x[6], x[9], x[11], x[16])
  IN <<<<y0, y1, y2, y3>>, <<y4, y5, y6, y7>>,
       <<y8, y9, y10, y11>>, <<y12, y13, y14, y15>>>>

\* FO(D, RK, output), FE(D, RK, output): the array output after the call
FO(D, RK) == A(SL1(XOR_128(D, RK)))

\* an even round that substitutes with the odd round's layer
FE_OddLayer(D, RK) == A(SL1(XOR_128(D, RK)))

FE(D, RK) == A(SL2(XOR_128(D, RK)))

\* generateEncryptionKeys(): the arrays ek1 .. ek13 after the call, from the
\* registers W0 .. W3 (Wr[1] .. Wr[4])
generateEncryptionKeys(Wr) ==
  <<XOR_128(ROR_128(Wr[2], 19), Wr[1]),
    XOR_128(ROR_128(Wr[3], 19), Wr[2]),
    XOR_128(ROR_128(Wr[4], 19), Wr[3]),
    XOR_128(ROR_128(Wr[1], 19), Wr[4]),
    XOR_128(ROR_128(Wr[2], 31), Wr[1]),
    XOR_128(ROR_128(Wr[3], 31), Wr[2]),
    XOR_128(ROR_128(Wr[4], 31), Wr[3]),
    XOR_128(ROR_128(Wr[1], 31), Wr[4]),
    XOR_128(ROL_128(ROL_128(Wr[2], 31), 30), Wr[1]),
    XOR_128(ROL_128(ROL_128(Wr[3], 31), 30), Wr[2]),
    XOR_128(ROL_128(ROL_128(Wr[4], 31), 30), Wr[3]),
    XOR_128(ROL_128(ROL_128(Wr[1], 31), 30), Wr[4]),
    XOR_128(ROL_128(Wr[2], 31), Wr[1])>>

\* decryption keys in the order of the encryption keys
generateDecryptionKeys_SameOrder(e) ==
  <<e[1], A(e[2]), A(e[3]), A(e[4]), A(e[5]), A(e[6]), A(e[7]),
    A(e[8]), A(e[9]), A(e[10]), A(e[11]), A(e[12]), e[13]>>

\* generateDecryptionKeys(): the arrays dk1 .. dk13 after the call, from the
\* arrays ek1 .. ek13 as they stand
generateDecryptionKeys(e) ==
  <<e[13], A(e[12]), A(e[11]), A(e[10]), A(e[9]), A(e[8]), A(e[7]),
    A(e[6]), A(e[5]), A(e[4]), A(e[3]), A(e[2]), e[1]>>

\* "Init registers" of ARIA_encrypt: W0 .. W3 after it
AriaEncryptRegisters(Wr, key) ==
  LET W0 == key
      W1 == XOR_128(FO(W0, CK1), KR)
      W2 == XOR_128(FE(W1, CK2), W0)
  IN <<W0, W1, W2, XOR_128(FO(W2, CK3), W1)>>

\* "Init registers" of ARIA_decrypt: the third transform is written into W2,
\* and W3 is XORed with W1 where it stands
AriaDecryptRegisters(Wr, key) ==
  LET W0 == key
      W1 == XOR_128(FO(W0, CK1), KR)
      W2 == XOR_128(FE(W1, CK2), W0)
  IN <<W0, W1, FO(W2, CK3), XOR_128(Wr[4], W1)>>

\* the rounds FO(block, k1, P); FE(P, k2, P); ... FO(P, k11, P) from round r
RECURSIVE AriaRounds(_, _, _)
AriaRounds(P, k, r) ==
  IF r <= 11 /\ Strict(P)
  THEN AriaRounds(IF r % 2 = 1 THEN FO(P, k[r]) ELSE FE(P, k[r]), k, r + 1)
  ELSE P

\* the rounds and the final XOR, SL2, XOR with the key arrays k
AriaCrypt(block, k) ==
  XOR_128(SL2(XOR_128(AriaRounds(block, k, 1), k[12])), k[13])

\* an encryption that initialises the registers as ARIA_decrypt does, XORing
\* W1 into W3 where it stands
ARIA_encrypt_StaleW3(g, block, key) ==
  LET Wr == AriaDecryptRegisters(g.W, key)
      e == generateEncryptionKeys(Wr)
  IN [W |-> Wr, ek |-> e, dk |-> g.dk, P |-> AriaCrypt(block, e)]

\* ARIA_encrypt(block, key, P) on the globals g = [W, ek, dk]: the globals
\* and the array P after the call
ARIA_encrypt(g, block, key) ==
  LET Wr == AriaEncryptRegisters(g.W, key)
      e == generateEncryptionKeys(Wr)
  IN [W |-> Wr, ek |-> e, dk |-> g.dk, P |-> AriaCrypt(block, e)]

\* ARIA_decrypt(block, key, P) on the globals g
ARIA_decrypt(g, block, key) ==
  LET Wr == AriaDecryptRegisters(g.W, key)
      d == generateDecryptionKeys(g.ek)
  IN [W |-> Wr, ek |-> g.ek, dk |-> d, P |-> AriaCrypt(block, d)]

(***************************************************************************)
(* Inputs.  The first keys and blocks are the vectors of the drivers       *)
(* ARIA_main, PRESENT_main and SIMON_main; the others are byte patterns.   *)
(***************************************************************************)
AriaKey(i) ==
  LET b(n) == (n * (2 * i - 1) + 59 * (i - 1)) % 256
  IN <<<<b(0), b(1), b(2), b(3)>>, <<b(4), b(5), b(6), b(7)>>,
       <<b(8), b(9), b(10), b(11)>>, <<b(12), b(13), b(14), b(15)>>>>

AriaBlock(i) ==
  LET b(n) == (17 * n * (2 * i - 1) + 101 * (i - 1)) % 256
  IN <<<<b(0), b(1), b(2), b(3)>>, <<b(4), b(5), b(6), b(7)>>,
       <<b(8), b(9), b(10), b(11)>>, <<b(12), b(13), b(14), b(15)>>>>

AriaKeys == {AriaKey(i) : i \in 1..NumAriaKeys}
AriaBlocks == {AriaBlock(i) : i \in 1..NumAriaBlocks}

\* uint16_t key[8] and uint16_t text[4]
PresentKey(i) ==
  LET b(n) == ((i - 1) * (29 + 7 * n)) % 256
  IN <<<<b(0), b(1)>>, <<b(2), b(3)>>, <<b(4), b(5)>>, <<b(6), b(7)>>,
       <<b(8), b(9)>>, <<b(10), b(11)>>, <<b(12), b(13)>>, <<b(14), b(15)>>>>

PresentBlock(i) ==
  LET b(n) == ((i - 1) * (83 + 13 * n)) % 256
  IN <<<<b(0), b(1)>>, <<b(2), b(3)>>, <<b(4), b(5)>>, <<b(6), b(7)>>>>

PresentKeys == {PresentKey(i) : i \in 1..NumPresentKeys}
PresentBlocks == {PresentBlock(i) : i \in 1..NumPresentBlocks}
\* the supported key lengths and an unsupported one
PresentKeyLens == {80, 128, 64}

\* uint64_t key[4]: the word 8n+7 .. 8n of the driver's keys
SimonKeyWord(n) ==
  LET b(j) == (8 * n + 8 - j) % 256
  IN <<b(1), b(2), b(3), b(4), b(5), b(6), b(7), b(8)>>

SimonKey(i) ==
  <<SimonKeyWord(i), SimonKeyWord(i - 1), SimonKeyWord(i - 2),
    SimonKeyWord(i - 3)>>

\* the driver initialises with 128, 192 and 256 bits; 100 is unsupported
SimonKeyLen(i) == <<128, 192, 256, 100>>[((i - 1) % 4) + 1]

SimonText ==
  <<<<<<\h63, \h73, \h65, \h64, \h20, \h73, \h72, \h65>>,
      <<\h6c, \h6c, \h65, \h76, \h61, \h72, \h74, \h20>>>>,
    <<<<\h20, \h65, \h72, \h65, \h68, \h74, \h20, \h6e>>,
      <<\h65, \h68, \h77, \h20, \h65, \h62, \h69, \h72>>>>,
    <<<<\h74, \h20, \h6e, \h69, \h20, \h6d, \h6f, \h6f>>,
      <<\h6d, \h69, \h73, \h20, \h61, \h20, \h73, \h69>>>>>>

SimonBlock(i) ==
  IF i <= 3 THEN SimonText[i]
  ELSE LET b(n) == (i * (41 + 9 * n)) % 256
       IN <<<<b(0), b(1), b(2), b(3), b(4), b(5), b(6), b(7)>>,
            <<b(8), b(9), b(10), b(11), b(12), b(13), b(14), b(15)>>>>

SimonInitArgs == {<<SimonKey(i), SimonKeyLen(i)>> : i \in 1..NumSimonKeys}
SimonBlocks == {SimonBlock(i) : i \in 1..NumSimonBlocks}

(***************************************************************************)
(* State.                                                                  *)
(*   cipher       the cipher whose functions this run calls                *)
(*   W, ek, dk    ARIA's global registers W0..W3 and key arrays            *)
(*   presentCtx   the caller's PresentContext                              *)
(*   simonCtx     the caller's SimonContext                                *)
(*   ctxKey       the arguments of the last init call on the context       *)
(*   last         the last call: function, arguments, output               *)
(*   prev         the encryption whose output the last call decrypted      *)
(*   thr          the two threads of the concurrent runs                   *)
(***************************************************************************)
NoCall == [op |-> "none", key |-> <<>>, keyLen |-> 0, in |-> <<>>, out |-> <<>>]
NoKey == [key |-> <<>>, keyLen |-> 0]
NoThreads == <<>>

\* static storage is zero before the first call
AriaGlobals0 ==
  [W |-> <<Zero128, Zero128, Zero128, Zero128>>,
   ek |-> <<Zero128, Zero128, Zero128, Zero128, Zero128, Zero128, Zero128,
            Zero128, Zero128, Zero128, Zero128, Zero128, Zero128>>,
   dk |-> <<Zero128, Zero128, Zero128, Zero128, Zero128, Zero128, Zero128,
            Zero128, Zero128, Zero128, Zero128, Zero128, Zero128>>]

\* a context is an automatic variable of the caller: before init it holds
\* whatever the stack held, here one of two fills
Fills == {Zero64, <<\ha5, \ha5, \ha5, \ha5, \ha5, \ha5, \ha5, \ha5>>}

PresentCtx0(v) == [roundKeys |-> [i \in 1..32 |-> v] \o <<>>]
SimonCtx0(v) == [subkeys |-> [i \in 1..72 |-> v] \o <<>>, nrSubkeys |-> v[8]]

Globals == [W |-> W, ek |-> ek, dk |-> dk]

InitARIA ==
  /\ cipher = "ARIA"
  /\ W = AriaGlobals0.W /\ ek = AriaGlobals0.ek /\ dk = AriaGlobals0.dk
  /\ presentCtx = PresentCtx0(Zero64) /\ simonCtx = SimonCtx0(Zero64)
  /\ ctxKey = NoKey /\ last = NoCall /\ prev = NoCall /\ thr = NoThreads

InitPRESENT ==
  /\ cipher = "PRESENT"
  /\ W = AriaGlobals0.W /\ ek = AriaGlobals0.ek /\ dk = AriaGlobals0.dk
  /\ \E v \in Fills : presentCtx = PresentCtx0(v)
  /\ simonCtx = SimonCtx0(Zero64)
  /\ ctxKey = NoKey /\ last = NoCall /\ prev = NoCall /\ thr = NoThreads

InitSIMON ==
  /\ cipher = "SIMON"
  /\ W = AriaGlobals0.W /\ ek = AriaGlobals0.ek /\ dk = AriaGlobals0.dk
  /\ presentCtx = PresentCtx0(Zero64)
  /\ \E v \in Fills : simonCtx = SimonCtx0(v)
  /\ ctxKey = NoKey /\ last = NoCall /\ prev = NoCall /\ thr = NoThreads

\* a decryption takes a block of the input set or the ciphertext the call
\* before it produced; prev then remembers that encryption
DecInputs(blocks, encOp) ==
  blocks \cup (IF last.op = encOp THEN {last.out} ELSE {})

PrevFor(block, encOp) ==
  IF last.op = encOp /\ block = last.out THEN last ELSE NoCall

(***************************************************************************)
(* ARIA calls                                                              *)
(***************************************************************************)
\* the call returns: the globals and the output array are as r says
AriaReturn(op, key, block, r) ==
  /\ W' = r.W /\ ek' = r.ek /\ dk' = r.dk
  /\ last' = [op |-> op, key |-> key, keyLen |-> 128, in |-> block,
              out |-> r.P]

AriaEncryptCall ==
  /\ cipher = "ARIA"
  /\ \E key \in AriaKeys, block \in AriaBlocks :
       /\ AriaReturn("ARIA_encrypt", key, block,
                     ARIA_encrypt(Globals, block, key))
       /\ prev' = NoCall
  /\ UNCHANGED <<cipher, presentCtx, simonCtx, ctxKey, thr>>

AriaDecryptCall ==
  /\ cipher = "ARIA"
  /\ \E key \in AriaKeys, block \in DecInputs(AriaBlocks, "ARIA_encrypt") :
       /\ AriaReturn("ARIA_decrypt", key, block,
                     ARIA_decrypt(Globals, block, key))
       /\ prev' = PrevFor(block, "ARIA_encrypt")
  /\ UNCHANGED <<cipher, presentCtx, simonCtx, ctxKey, thr>>

NextARIA == AriaEncryptCall \/ AriaDecryptCall

SpecARIA == InitARIA /\ [][NextARIA]_vars

(***************************************************************************)
(* PRESENT calls                                                           *)
(***************************************************************************)
PresentInitCall ==
  /\ cipher = "PRESENT"
  /\ \E key \in PresentKeys, keyLen \in PresentKeyLens :
       /\ presentCtx' = PRESENT_init(presentCtx, key, keyLen)
       /\ ctxKey' = [key |-> key, keyLen |-> keyLen]
       /\ last' = [op |-> "PRESENT_init", key |-> key, keyLen |-> keyLen,
                   in |-> <<>>, out |-> <<>>]
       /\ prev' = NoCall
  /\ UNCHANGED <<cipher, W, ek, dk, simonCtx, thr>>

PresentEncryptCall ==
  /\ cipher = "PRESENT"
  /\ ctxKey # NoKey
  /\ \E block \in PresentBlocks :
       /\ last' = [op |-> "PRESENT_encrypt", key |-> ctxKey.key,
                   keyLen |-> ctxKey.keyLen, in |-> block,
                   out |-> PRESENT_encrypt(presentCtx, block)]
       /\ prev' = NoCall
  /\ UNCHANGED <<cipher, W, ek, dk, presentCtx, simonCtx, ctxKey, thr>>

\* a decryption that keeps its state in roundKeys[0] while it runs
PresentDecryptCall_ScratchKey ==
  /\ cipher = "PRESENT"
  /\ ctxKey # NoKey
  /\ \E block \in DecInputs(PresentBlocks, "PRESENT_encrypt") :
       /\ last' = [op |-> "PRESENT_decrypt", key |-> ctxKey.key,
                   keyLen |-> ctxKey.keyLen, in |-> block,
                   out |-> PRESENT_decrypt(presentCtx, block)]
       /\ presentCtx' =
            [roundKeys |-> SetRoundKey(presentCtx.roundKeys, 0,
                                       PresentLoad(last'.out))]
       /\ prev' = PrevFor(block, "PRESENT_encrypt")
  /\ UNCHANGED <<cipher, W, ek, dk, simonCtx, ctxKey, thr>>

PresentDecryptCall ==
  /\ cipher = "PRESENT"
  /\ ctxKey # NoKey
  /\ \E block \in DecInputs(PresentBlocks, "PRESENT_encrypt") :
       /\ last' = [op |-> "PRESENT_decrypt", key |-> ctxKey.key,
                   keyLen |-> ctxKey.keyLen, in |-> block,
                   out |-> PRESENT_decrypt(presentCtx, block)]
       /\ prev' = PrevFor(block, "PRESENT_encrypt")
  /\ UNCHANGED <<cipher, W, ek, dk, presentCtx, simonCtx, ctxKey, thr>>

NextPRESENT == PresentInitCall \/ PresentEncryptCall \/ PresentDecryptCall

SpecPRESENT == InitPRESENT /\ [][NextPRESENT]_vars

(***************************************************************************)
(* SIMON calls                                                             *)
(***************************************************************************)
SimonInitCall ==
  /\ cipher = "SIMON"
  /\ \E a \in SimonInitArgs :
       /\ simonCtx' = SIMON_init(simonCtx, a[1], a[2])
       /\ ctxKey' = [key |-> a[1], keyLen |-> a[2]]
       /\ last' = [op |-> "SIMON_init", key |-> a[1], keyLen |-> a[2],
                   in |-> <<>>, out |-> <<>>]
       /\ prev' = NoCall
  /\ UNCHANGED <<cipher, W, ek, dk, presentCtx, thr>>

SimonEncryptCall ==
  /\ cipher = "SIMON"
  /\ ctxKey # NoKey
  /\ \E block \in SimonBlocks :
       /\ last' = [op |-> "SIMON_encrypt", key |-> ctxKey.key,
                   keyLen |-> ctxKey.keyLen, in |-> block,
                   out |-> SIMON_encrypt(simonCtx, block)]
       /\ prev' = NoCall
  /\ UNCHANGED <<cipher, W, ek, dk, presentCtx, simonCtx, ctxKey, thr>>

SimonDecryptCall ==
  /\ cipher = "SIMON"
  /\ ctxKey # NoKey
  /\ \E block \in DecInputs(SimonBlocks, "SIMON_encrypt") :
       /\ last' = [op |-> "SIMON_decrypt", key |-> ctxKey.key,
                   keyLen |-> ctxKey.keyLen, in |-> block,
                   out |-> SIMON_decrypt(simonCtx, block)]
       /\ prev' = PrevFor(block, "SIMON_encrypt")
  /\ UNCHANGED <<cipher, W, ek, dk, presentCtx, simonCtx, ctxKey, thr>>

NextSIMON == SimonInitCall \/ SimonEncryptCall \/ SimonDecryptCall

SpecSIMON == InitSIMON /\ [][NextSIMON]_vars

(***************************************************************************)
(* The three ciphers share no state: a run calls the functions of one.     *)
(***************************************************************************)
Init == InitARIA \/ InitPRESENT \/ InitSIMON

Next ==
  \/ AriaEncryptCall \/ AriaDecryptCall
  \/ PresentInitCall \/ PresentEncryptCall \/ PresentDecryptCall
  \/ SimonInitCall \/ SimonEncryptCall \/ SimonDecryptCall

Spec == Init /\ [][Next]_vars

(***************************************************************************)
(* Two threads call ARIA_encrypt or ARIA_decrypt at once.  A thread takes  *)
(* the three steps of its call in order: it initialises the registers,     *)
(* generates the round keys, runs the rounds.  The registers and the key   *)
(* arrays are the globals both threads use.                                *)
(***************************************************************************)
ThreadCalls ==
  {[op |-> o, key |-> k, in |-> b, pc |-> "registers", out |-> <<>>] :
     o \in {"ARIA_encrypt", "ARIA_decrypt"}, k \in AriaKeys, b \in AriaBlocks}

InitThreads ==
  /\ cipher = "ARIA"
  /\ W = AriaGlobals0.W /\ ek = AriaGlobals0.ek /\ dk = AriaGlobals0.dk
  /\ presentCtx = PresentCtx0(Zero64) /\ simonCtx = SimonCtx0(Zero64)
  /\ ctxKey = NoKey /\ last = NoCall /\ prev = NoCall
  /\ thr \in [1..2 -> ThreadCalls]

ThreadRegisters(t) ==
  /\ thr[t].pc = "registers"
  /\ W' = IF thr[t].op = "ARIA_encrypt"
          THEN AriaEncryptRegisters(W, thr[t].key)
          ELSE AriaDecryptRegisters(W, thr[t].key)
  /\ thr' = [thr EXCEPT ![t].pc = "keys"]
  /\ UNCHANGED <<cipher, ek, dk, presentCtx, simonCtx, ctxKey, last, prev>>

ThreadKeys(t) ==
  /\ thr[t].pc = "keys"
  /\ IF thr[t].op = "ARIA_encrypt"
     THEN ek' = generateEncryptionKeys(W) /\ dk' = dk
     ELSE dk' = generateDecryptionKeys(ek) /\ ek' = ek
  /\ thr' = [thr EXCEPT ![t].pc = "rounds"]
  /\ UNCHANGED <<cipher, W, presentCtx, simonCtx, ctxKey, last, prev>>

ThreadRounds(t) ==
  /\ thr[t].pc = "rounds"
  /\ thr' = [thr EXCEPT ![t].pc = "done",
                        ![t].out = AriaCrypt(thr[t].in,
                                     IF thr[t].op = "ARIA_encrypt" THEN ek ELSE dk)]
  /\ UNCHANGED <<cipher, W, ek, dk, presentCtx, simonCtx, ctxKey, last, prev>>

NextThreads ==
  \E t \in 1..2 : ThreadRegisters(t) \/ ThreadKeys(t) \/ ThreadRounds(t)

SpecThreads == InitThreads /\ [][NextThreads]_vars

(***************************************************************************)
(* The known answers of the drivers                                        *)
(***************************************************************************)
AriaKatKey ==
  <<<<\h00, \h01, \h02, \h03>>, <<\h04, \h05, \h06, \h07>>,
    <<\h08, \h09, \h0a, \h0b>>, <<\h0c, \h0d, \h0e, \h0f>>>>
AriaKatText ==
  <<<<\h00, \h11, \h22, \h33>>, <<\h44, \h55, \h66, \h77>>,
    <<\h88, \h99, \haa, \hbb>>, <<\hcc, \hdd, \hee, \hff>>>>
AriaKatCipher ==
  <<<<\hd7, \h18, \hfb, \hd6>>, <<\hab, \h64, \h4c, \h73>>,
    <<\h9d, \ha9, \h5f, \h3b>>, <<\he6, \h45, \h17, \h78>>>>

PresentZeroKey ==
  <<<<0, 0>>, <<0, 0>>, <<0, 0>>, <<0, 0>>, <<0, 0>>, <<0, 0>>, <<0, 0>>, <<0, 0>>>>
PresentZeroBlock == <<<<0, 0>>, <<0, 0>>, <<0, 0>>, <<0, 0>>>>
Present80Cipher == <<<<\h55, \h79>>, <<\hc1, \h38>>, <<\h7b, \h22>>, <<\h84, \h45>>>>
Present128Cipher == <<<<\h04, \hbd>>, <<\hd5, \hf4>>, <<\hea, \hef>>, <<\hcc, \h19>>>>

(***************************************************************************)
(* Properties                                                              *)
(***************************************************************************)

\* the last call decrypted, with the context or globals as the encryption
\* left them, the ciphertext that encOp had just produced
Decrypted(encOp, decOp) ==
  /\ last.op = decOp
  /\ prev.op = encOp
  /\ last.in = prev.out

\* C1: ARIA round trip.  For every key k and block p, ARIA_encrypt(p, k, c)
\* followed by ARIA_decrypt(c, k, q) gives q = p, whatever calls came before
\* the encryption.
C1_AriaRoundTrip ==
  (Decrypted("ARIA_encrypt", "ARIA_decrypt") /\ last.key = prev.key)
    => last.out = prev.in

\* a round trip under the second key, after which the decryption keys are
\* those of that key
C1_Witness ==
  /\ Decrypted("ARIA_encrypt", "ARIA_decrypt")
  /\ last.key = prev.key
  /\ last.key = AriaKey(2)
  /\ prev.in = AriaBlock(2)
  /\ last.out = prev.in
  /\ last.out # last.in

\* C2: PRESENT round trip.  On a context initialised by PRESENT_init with a
\* key length of 80 or 128 and any key, PRESENT_decrypt of the output of
\* PRESENT_encrypt of a block p gives p.
C2_PresentRoundTrip ==
  (Decrypted("PRESENT_encrypt", "PRESENT_decrypt") /\ ctxKey.keyLen \in {80, 128})
    => last.out = prev.in

C2_Witness ==
  /\ Decrypted("PRESENT_encrypt", "PRESENT_decrypt")
  /\ ctxKey.keyLen = 128
  /\ ctxKey.key = PresentKey(2)
  /\ prev.in = PresentBlock(3)
  /\ last.out = prev.in
  /\ last.out # last.in

\* C3: SIMON round trip.  On a context initialised by SIMON_init with a key
\* length of 128, 192 or 256 and any key, SIMON_decrypt of the output of
\* SIMON_encrypt of a block p gives p; with 192 bits the context holds an odd
\* number of subkeys, 69.
C3_SimonRoundTrip ==
  (Decrypted("SIMON_encrypt", "SIMON_decrypt") /\ ctxKey.keyLen \in {128, 192, 256})
    => last.out = prev.in

\* a round trip under the 192-bit key, through the odd 69th subkey
C3_Witness ==
  /\ Decrypted("SIMON_encrypt", "SIMON_decrypt")
  /\ ctxKey.keyLen = 192
  /\ simonCtx.nrSubkeys = 69
  /\ prev.in = SimonBlock(1)
  /\ last.out = prev.in
  /\ last.out # last.in

\* C4: an init call with an unsupported key length fails and produces no
\* schedule.  PRESENT_init with keyLen outside {80, 128} and SIMON_init with
\* keyLen outside {128, 192, 256} write no round key into the context: the
\* context after the call is the context before it.
C4_UnsupportedKeyLenWritesNothing ==
  [][/\ (last'.op = "PRESENT_init" /\ last'.keyLen \notin {80, 128})
          => presentCtx' = presentCtx
     /\ (last'.op = "SIMON_init" /\ last'.keyLen \notin {128, 192, 256})
          => simonCtx' = simonCtx]_vars

\* C5: ARIA_decrypt is a pure function of its inputs.  The output of
\* ARIA_decrypt(c, k, out) after any sequence of earlier ARIA_encrypt and
\* ARIA_decrypt calls is its output in the initial program state.
C5_AriaDecryptPure ==
  last.op = "ARIA_decrypt"
    => last.out = ARIA_decrypt(AriaGlobals0, last.in, last.key).P

\* C6: concurrent use of ARIA is safe.  When two threads run ARIA_encrypt
\* and their steps interleave in any order, a thread that has finished holds
\* the output of the same call run alone.
C6_ConcurrentEncryptAsAlone ==
  \A t \in DOMAIN thr :
    (thr[t].op = "ARIA_encrypt" /\ thr[t].pc = "done")
      => thr[t].out = ARIA_encrypt(AriaGlobals0, thr[t].in, thr[t].key).P

\* C7: encryption is deterministic under sequential interleaving.  For each
\* cipher the ciphertext of a key and a block is the one a fresh program
\* computes for them (zeroed ARIA globals; a fresh context initialised with
\* the key), whatever init, encrypt and decrypt calls with other keys or key
\* sizes came before.
C7_EncryptDeterministic ==
  /\ last.op = "ARIA_encrypt"
       => last.out = ARIA_encrypt(AriaGlobals0, last.in, last.key).P
  /\ last.op = "PRESENT_encrypt"
       => \A v \in Fills :
            last.out = PRESENT_encrypt(
                         PRESENT_init(PresentCtx0(v), ctxKey.key, ctxKey.keyLen),
                         last.in)
  /\ last.op = "SIMON_encrypt"
       => \A v \in Fills :
            last.out = SIMON_encrypt(
                         SIMON_init(SimonCtx0(v), ctxKey.key, ctxKey.keyLen),
                         last.in)

\* an encryption under a 128-bit SIMON key on a context whose last four
\* subkey slots hold what an earlier initialisation of another size left
C7_Witness ==
  /\ last.op = "SIMON_encrypt"
  /\ ctxKey.keyLen = 128
  /\ simonCtx.nrSubkeys = 68
  /\ SK(simonCtx.subkeys, 71) \notin Fills
  /\ SK(simonCtx.subkeys, 68) # SK(simonCtx.subkeys, 71)

\* C8: ARIA known answer.  ARIA_encrypt with key
\* 000102030405060708090a0b0c0d0e0f and plaintext
\* 00112233445566778899aabbccddeeff produces d718fbd6ab644c739da95f3be6451778.
C8_AriaKnownAnswer ==
  (last.op = "ARIA_encrypt" /\ last.key = AriaKatKey /\ last.in = AriaKatText)
    => last.out = AriaKatCipher

\* the known answer computed after earlier encryptions and decryptions
C8_Witness ==
  /\ last.op = "ARIA_encrypt"
  /\ last.key = AriaKatKey
  /\ last.in = AriaKatText
  /\ last.out = AriaKatCipher
  /\ dk # AriaGlobals0.dk

\* C9: PRESENT-80 known answer.  After PRESENT_init with the all-zero 80-bit
\* key, PRESENT_encrypt of the all-zero block produces 5579C1387B228445.
C9_Present80KnownAnswer ==
  (/\ last.op = "PRESENT_encrypt"
   /\ ctxKey = [key |-> PresentZeroKey, keyLen |-> 80]
   /\ last.in = PresentZeroBlock)
    => last.out = Present80Cipher

C9_Witness ==
  /\ last.op = "PRESENT_encrypt"
  /\ ctxKey = [key |-> PresentZeroKey, keyLen |-> 80]
  /\ last.in = PresentZeroBlock
  /\ last.out = Present80Cipher

\* C10: PRESENT-128 known answer.  After PRESENT_init with the all-zero
\* 128-bit key, PRESENT_encrypt of the all-zero block produces
\* 04bdd5f4eaefcc19.
C10_Present128KnownAnswer ==
  (/\ last.op = "PRESENT_encrypt"
   /\ ctxKey = [key |-> PresentZeroKey, keyLen |-> 128]
   /\ last.in = PresentZeroBlock)
    => last.out = Present128Cipher

C10_Witness ==
  /\ last.op = "PRESENT_encrypt"
  /\ ctxKey = [key |-> PresentZeroKey, keyLen |-> 128]
  /\ last.in = PresentZeroBlock
  /\ last.out = Present128Cipher

\* the key words of SIMON_main, most significant first: 256 bits use all
\* four, 192 bits the last three, 128 bits the last two
SimonKatKey ==
  <<<<\h1f, \h1e, \h1d, \h1c, \h1b, \h1a, \h19, \h18>>,
    <<\h17, \h16, \h15, \h14, \h13, \h12, \h11, \h10>>,
    <<\h0f, \h0e, \h0d, \h0c, \h0b, \h0a, \h09, \h08>>,
    <<\h07, \h06, \h05, \h04, \h03, \h02, \h01, \h00>>>>

\* expectedCipherText of the 128-, 192- and 256-bit tests
SimonKatCipher ==
  <<<<<<\h49, \h68, \h1b, \h1e, \h1e, \h54, \hfe, \h3f>>,
      <<\h65, \haa, \h83, \h2a, \hf8, \h4e, \h0b, \hbc>>>>,
    <<<<\hc4, \hac, \h61, \hef, \hfc, \hdc, \h0d, \h4f>>,
      <<\h6c, \h9c, \h8d, \h6e, \h25, \h97, \hb8, \h5b>>>>,
    <<<<\h8d, \h2b, \h55, \h79, \haf, \hc8, \ha3, \ha0>>,
      <<\h3b, \hf7, \h2a, \h87, \hef, \he7, \hb8, \h68>>>>>>

\* the last call encrypted the n-th text of the driver on a context
\* initialised with the driver's n-th key (n = 1, 2, 3: 128, 192, 256 bits)
SimonKatCase(n) ==
  /\ last.op = "SIMON_encrypt"
  /\ ctxKey.keyLen = <<128, 192, 256>>[n]
  /\ \A w \in 1..(n + 1) : ctxKey.key[w] = SimonKatKey[w + 3 - n]
  /\ last.in = SimonText[n]

\* C11: SIMON known answers.  SIMON_init and SIMON_encrypt reproduce the
\* driver's vectors: the 128-bit key with plaintext
\* 6373656420737265 6c6c657661727420 gives 49681b1e1e54fe3f 65aa832af84e0bbc,
\* the 192-bit vector gives c4ac61effcdc0d4f 6c9c8d6e2597b85b and the 256-bit
\* vector gives 8d2b5579afc8a3a0 3bf72a87efe7b868.
C11_SimonKnownAnswers ==
  \A n \in 1..3 : SimonKatCase(n) => last.out = SimonKatCipher[n]

\* the 192-bit vector, computed on a context that an earlier initialisation
\* of another size has written
C11_Witness ==
  /\ SimonKatCase(2)
  /\ last.out = SimonKatCipher[2]
  /\ SK(simonCtx.subkeys, 71) \notin Fills

(***************************************************************************)
(* Calls of the diffusion layer A on its own.  A caller passes an input    *)
(* array and an output array; the two may be the same array, as in the     *)
(* call A(y, y).  A copies the sixteen input bytes into locals before it   *)
(* writes output[0], so the output is A(input) in both cases.              *)
(***************************************************************************)
\* the first sixteen inputs have one byte ff and fifteen bytes 00; the
\* others are byte patterns
DiffusionInput(i) ==
  LET b(n) == IF i <= 16 THEN (IF n = i - 1 THEN 255 ELSE 0)
              ELSE (i * (37 + 11 * n)) % 256
  IN <<<<b(0), b(1), b(2), b(3)>>, <<b(4), b(5), b(6), b(7)>>,
       <<b(8), b(9), b(10), b(11)>>, <<b(12), b(13), b(14), b(15)>>>>

DiffusionInputs == {DiffusionInput(i) : i \in 1..NumDiffusionInputs}

\* A(x, y) with two arrays: last.out is y after the call
DiffusionCall ==
  /\ cipher = "ARIA"
  /\ \E x \in DiffusionInputs :
       last' = [op |-> "A", key |-> <<>>, keyLen |-> 0, in |-> x, out |-> A(x)]
  /\ prev' = NoCall
  /\ UNCHANGED <<cipher, W, ek, dk, presentCtx, simonCtx, ctxKey, thr>>

\* A(y, y) on the array the call before wrote
DiffusionInPlaceCall ==
  /\ cipher = "ARIA"
  /\ last.op \in {"A", "A in place"}
  /\ last' = [op |-> "A in place", key |-> <<>>, keyLen |-> 0,
              in |-> last.out, out |-> A(last.out)]
  /\ prev' = last
  /\ UNCHANGED <<cipher, W, ek, dk, presentCtx, simonCtx, ctxKey, thr>>

NextDiffusion == DiffusionCall \/ DiffusionInPlaceCall

SpecDiffusion == InitARIA /\ [][NextDiffusion]_vars

\* C12: ARIA diffusion involution.  For every 128-bit value x, A(A(x)) = x,
\* also when the second call has the same array as input and output: a call
\* in place on the output of a call gives back that call's input.
C12_DiffusionInvolution ==
  last.op = "A in place" => (prev.out = last.in /\ last.out = prev.in)

\* a pattern input that A changed, restored by the call in place
C12_Witness ==
  /\ last.op = "A in place"
  /\ prev.op = "A"
  /\ prev.in = DiffusionInput(17)
  /\ last.in # last.out
  /\ last.out = prev.in

\* the encryption round keys ek1..ek13 of a key, as ARIA_encrypt derives them
AriaEncryptionKeysOf(key) ==
  generateEncryptionKeys(AriaEncryptRegisters(AriaGlobals0.W, key))

\* C13: ARIA key-schedule symmetry.  For any key, after ARIA_decrypt has
\* derived its keys, dk1 = ek13, dk13 = ek1 and dk_i = A(ek_{14-i}) for
\* 2 <= i <= 12, where ek1..ek13 are the encryption round keys of the key
\* given to ARIA_decrypt.
C13_DecryptKeysMirrorKey ==
  last.op = "ARIA_decrypt"
    => /\ dk[1] = AriaEncryptionKeysOf(last.key)[13]
       /\ dk[13] = AriaEncryptionKeysOf(last.key)[1]
       /\ \A i \in 2..12 : dk[i] = A(AriaEncryptionKeysOf(last.key)[14 - i])

BlockTransforms ==
  {"PRESENT_encrypt", "PRESENT_decrypt", "SIMON_encrypt", "SIMON_decrypt"}

\* C14: block transforms never mutate the schedule.  A call of
\* PRESENT_encrypt, PRESENT_decrypt, SIMON_encrypt or SIMON_decrypt leaves
\* every field of the context (roundKeys[0..31]; subkeys and nrSubkeys) as it
\* was before the call, for any block and after any number of calls.
C14_BlockTransformsKeepSchedule ==
  [][last'.op \in BlockTransforms
       => (presentCtx' = presentCtx /\ simonCtx' = simonCtx)]_vars

\* a decryption of an encryption's output, on a context that still holds the
\* schedule PRESENT_init wrote for its key
C14_Witness ==
  /\ last.op = "PRESENT_decrypt"
  /\ prev.op = "PRESENT_encrypt"
  /\ ctxKey.keyLen = 128
  /\ presentCtx = PRESENT_init(PresentCtx0(Zero64), ctxKey.key, 128)
  /\ RoundKey(presentCtx.roundKeys, 31) \notin Fills

\* C15: ARIA encrypt and decrypt initialisation are identical.  For any key
\* and any prior state, the registers W0, W1, W2, W3 left by the
\* initialisation part of ARIA_decrypt are those left by the initialisation
\* part of ARIA_encrypt for the same key (W1 = FO(W0,CK1) ^ KR,
\* W2 = FE(W1,CK2) ^ W0, W3 = FO(W2,CK3) ^ W1).  Nothing after the
\* initialisation writes the registers, so they are W after the call.
C15_DecryptRegistersAsEncrypt ==
  last.op = "ARIA_decrypt" => W = AriaEncryptRegisters(W, last.key)

\* keyHigh and keyLow as the 128-bit branch of PRESENT_init loads them
Present128High(key) ==
  Or64(Or64(Or64(Shl64(U64of16(key[1]), 48), Shl64(U64of16(key[2]), 32)),
            Shl64(U64of16(key[3]), 16)),
       U64of16(key[4]))

Present128Low(key) ==
  Or64(Or64(Or64(Shl64(U64of16(key[5]), 48), Shl64(U64of16(key[6]), 32)),
            Shl64(U64of16(key[7]), 16)),
       U64of16(key[8]))

\* C16: PRESENT 128-bit key update.  In each of the 31 updates of the
\* 128-bit branch of PRESENT_init, after the rotation by 61 each of the two
\* top nibbles n of the register is replaced by sbox[n] and the other 120
\* bits are untouched by that step, for every key: the round keys the call
\* leaves are those of the schedule whose updates replace the two nibbles.
C16_KeyUpdateReplacesTopNibbles ==
  (last.op = "PRESENT_init" /\ last.keyLen = 128)
    => presentCtx.roundKeys =
         PresentLoop128_Replace(
           <<Present128High(last.key), Present128Low(last.key),
             SetRoundKey(presentCtx.roundKeys, 0, Present128High(last.key))>>,
           1)[3]

(***************************************************************************)
(* The layers of a PRESENT round on their own: the permutation loop and    *)
(* the nibble loop of PRESENT_encrypt, each followed by the loop of        *)
(* PRESENT_decrypt that undoes it.                                         *)
(***************************************************************************)
\* states 1..64 have the single bit i - 1 set, states 65..80 repeat one
\* nibble sixteen times, the others are byte patterns
LayerState(i) ==
  IF i <= 64 THEN U64ofBits({i - 1})
  ELSE IF i <= 80 THEN [n \in 1..8 |-> 17 * (i - 65)] \o <<>>
  ELSE [n \in 1..8 |-> (i * (41 + 23 * n)) % 256] \o <<>>

LayerStates == {LayerState(i) : i \in 1..NumLayerStates}

LayerCall(op, in, out) ==
  last' = [op |-> op, key |-> <<>>, keyLen |-> 0, in |-> in, out |-> out]

\* the permutation loop of PRESENT_encrypt on a state
PermutationCall ==
  /\ cipher = "PRESENT"
  /\ \E s \in LayerStates : LayerCall("permutation", s, PLayer(s))
  /\ prev' = NoCall
  /\ UNCHANGED <<cipher, W, ek, dk, presentCtx, simonCtx, ctxKey, thr>>

\* the permutation loop of PRESENT_decrypt on the output of the call before
InvPermutationCall ==
  /\ cipher = "PRESENT"
  /\ last.op = "permutation"
  /\ LayerCall("inverse permutation", last.out, InvPLayer(last.out))
  /\ prev' = last
  /\ UNCHANGED <<cipher, W, ek, dk, presentCtx, simonCtx, ctxKey, thr>>

\* the nibble loop of PRESENT_encrypt on a state
SboxLayerCall ==
  /\ cipher = "PRESENT"
  /\ \E s \in LayerStates : LayerCall("sbox layer", s, SubLayer(sbox, s))
  /\ prev' = NoCall
  /\ UNCHANGED <<cipher, W, ek, dk, presentCtx, simonCtx, ctxKey, thr>>

\* the nibble loop of PRESENT_decrypt on the output of the call before
InvSboxLayerCall ==
  /\ cipher = "PRESENT"
  /\ last.op = "sbox layer"
  /\ LayerCall("isbox layer", last.out, SubLayer(isbox, last.out))
  /\ prev' = last
  /\ UNCHANGED <<cipher, W, ek, dk, presentCtx, simonCtx, ctxKey, thr>>

NextLayers ==
  \/ PermutationCall \/ InvPermutationCall
  \/ SboxLayerCall \/ InvSboxLayerCall

SpecLayers == InitPRESENT /\ [][NextLayers]_vars

\* C17: PRESENT inverse layers.  For every 64-bit state s the permutation
\* loop of PRESENT_decrypt applied to the output of the permutation loop of
\* PRESENT_encrypt returns s (p is a bijection on 0..63), and the isbox
\* nibble layer applied to the output of the sbox nibble layer returns s
\* (isbox[sbox[n]] = n for all 16 nibbles).
C17_InverseLayers ==
  /\ last.op \in {"inverse permutation", "isbox layer"}
       => (prev.out = last.in /\ last.out = prev.in)
  /\ {PTable[i] : i \in 1..64} = 0..63
  /\ \A n \in 0..15 : isbox[sbox[n + 1] + 1] = n

\* a pattern state that the permutation changed, restored by the inverse loop
C17_Witness ==
  /\ last.op = "inverse permutation"
  /\ prev.op = "permutation"
  /\ prev.in = LayerState(81)
  /\ prev.out # prev.in
  /\ last.out = prev.in

\* one Feistel round with subkey k: (x, y) -> (y ^ f(x) ^ k, x).  It is the
\* first half of R2 (*y ^= f(*x); *y ^= k) with the halves exchanged.
SimonRound(xy, k) == <<Xor64(Xor64(xy[2], f(xy[1])), k), xy[1]>>

\* the rounds with subkeys[i], .., subkeys[n - 1] in order
RECURSIVE SimonRounds(_, _, _, _)
SimonRounds(sk, xy, i, n) ==
  IF i < n /\ Strict(xy)
  THEN SimonRounds(sk, SimonRound(xy, SK(sk, i)), i + 1, n)
  ELSE xy

\* C18: the SIMON macro equals single Feistel rounds.  For every block and
\* schedule the output of SIMON_encrypt is that of the single round
\* (x, y) -> (y ^ f(x) ^ k_i, x) applied once per subkey for
\* i = 0 .. nrSubkeys-1 in order; an R2 call equals two consecutive single
\* rounds; for 192-bit keys the trailing half-round and swap after the 68
\* rounds of the loop equal the 69th single round with subkeys[68].
C18_MacroEqualsSingleRounds ==
  last.op = "SIMON_encrypt"
    => /\ simonCtx.nrSubkeys \in {68, 69, 72}
       /\ last.out = SimonRounds(simonCtx.subkeys, last.in, 0,
                                 simonCtx.nrSubkeys)
       /\ R2(last.in[1], last.in[2], SK(simonCtx.subkeys, 0),
             SK(simonCtx.subkeys, 1))
            = SimonRound(SimonRound(last.in, SK(simonCtx.subkeys, 0)),
                         SK(simonCtx.subkeys, 1))
       /\ simonCtx.nrSubkeys = 69
            => last.out = SimonRound(SimonRounds(simonCtx.subkeys, last.in,
                                                 0, 68),
                                     SK(simonCtx.subkeys, 68))

\* an encryption of 69 rounds whose last round changed both halves
C18_Witness ==
  /\ last.op = "SIMON_encrypt"
  /\ simonCtx.nrSubkeys = 69
  /\ last.out = SimonRounds(simonCtx.subkeys, last.in, 0, 69)
  /\ last.out[1] # SimonRounds(simonCtx.subkeys, last.in, 0, 68)[1]
  /\ last.out[2] # SimonRounds(simonCtx.subkeys, last.in, 0, 68)[2]

(***************************************************************************)
(* The indices at which SIMON_encrypt and SIMON_decrypt read subkeys[],    *)
(* in the order of the reads, for a context with n = nrSubkeys.            *)
(***************************************************************************)
\* for (i = from; i < to; i += 2) R2(.., subkeys[i], subkeys[i + 1]) with
\* uint8_t i
RECURSIVE SimonEncReadLoop(_, _)
SimonEncReadLoop(i, to) ==
  IF i < to THEN <<i, i + 1>> \o SimonEncReadLoop((i + 2) % 256, to)
  ELSE <<>>

SIMON_encrypt_Reads(n) ==
  IF n = 69 THEN SimonEncReadLoop(0, 68) \o <<68>>
  ELSE SimonEncReadLoop(0, n)

\* a loop that steps down by one
RECURSIVE SimonDecReadLoop_ByOne(_)
SimonDecReadLoop_ByOne(i) ==
  IF i >= 0 THEN <<i, i - 1>> \o SimonDecReadLoop_ByOne(i - 1) ELSE <<>>

\* for (i = from; i >= 0; i -= 2) R2(.., subkeys[i], subkeys[i - 1]) with
\* int i
RECURSIVE SimonDecReadLoop(_)
SimonDecReadLoop(i) ==
  IF i >= 0 THEN <<i, i - 1>> \o SimonDecReadLoop(i - 2) ELSE <<>>

SIMON_decrypt_Reads(n) ==
  IF n = 69 THEN <<68>> \o SimonDecReadLoop(67)
  ELSE SimonDecReadLoop(n - 1)

\* every read of r has an index in 0 .. n-1, and each index is read once
ReadsEachOnce(r, n) ==
  /\ \A j \in 1..Len(r) : r[j] \in 0..(n - 1)
  /\ \A i \in 0..(n - 1) : Cardinality({j \in 1..Len(r) : r[j] = i}) = 1

\* subkeys[0 .. nrSubkeys-1] of context are what SIMON_init(key, keyLen)
\* writes whatever the array held before the call
WrittenByInit(context, key, keyLen) ==
  \A v \in Fills :
    SubSeq(context.subkeys, 1, context.nrSubkeys)
      = SubSeq(SIMON_init(SimonCtx0(v), key, keyLen).subkeys, 1,
               context.nrSubkeys)

\* C19: SIMON subkey indices stay in range.  After SIMON_init with any
\* keyLen, nrSubkeys is 68, 69 or 72 and subkeys[0 .. nrSubkeys-1] have all
\* been written by that init; every subkeys[] read of SIMON_encrypt and
\* SIMON_decrypt (subkeys[i + 1] and subkeys[i - 1] included) has an index
\* in 0 .. nrSubkeys-1, and the loops end with each index read exactly once.
C19_SubkeyIndicesInRange ==
  /\ last.op = "SIMON_init"
       => /\ simonCtx.nrSubkeys \in {68, 69, 72}
          /\ WrittenByInit(simonCtx, last.key, last.keyLen)
  /\ last.op = "SIMON_encrypt"
       => ReadsEachOnce(SIMON_encrypt_Reads(simonCtx.nrSubkeys),
                        simonCtx.nrSubkeys)
  /\ last.op = "SIMON_decrypt"
       => ReadsEachOnce(SIMON_decrypt_Reads(simonCtx.nrSubkeys),
                        simonCtx.nrSubkeys)

\* a decryption with the odd schedule of 69 subkeys on a context that held a
\* longer schedule before: it reads subkeys[68] first and subkeys[0] last
C19_Witness ==
  /\ last.op = "SIMON_decrypt"
  /\ simonCtx.nrSubkeys = 69
  /\ SK(simonCtx.subkeys, 71) \notin Fills
  /\ SIMON_decrypt_Reads(69)[1] = 68
  /\ SIMON_decrypt_Reads(69)[69] = 0
  /\ WrittenByInit(simonCtx, ctxKey.key, ctxKey.keyLen)

====
